---- MODULE Spec2Model ----
(***************************************************************************)
(* Model of tantivy's final aggregation tree (src/aggregation/agg_result.rs) *)
(* The conversion from an intermediate aggregation tree and its request to *)
(* the final tree is a pure function; a run of the model draws a request   *)
(* and an intermediate tree, converts them, and then reads values from the *)
(* final tree.                                                             *)
(***************************************************************************)
EXTENDS Integers, Sequences, FiniteSets, TLC

VARIABLES req, intermediate_results, result, value, pc

vars == <<req, intermediate_results, result, value, pc>>

(***************************************************************************)
(* Bounds of the model.                                                    *)
(***************************************************************************)
\* Number of bucket aggregations at the top level of a request.
MaxBuckets == 2
\* Number of entries of a range bucket result whose ordering is explored.
MaxEntries == 3

(***************************************************************************)
(* Rust's Option and Result. A panic (assert_eq!, expect) is an outcome of *)
(* its own: the call neither returns Ok nor Err.                           *)
(***************************************************************************)
None == [some |-> FALSE]
Some(x) == [some |-> TRUE, v |-> x]

Ok(x) == [tag |-> "Ok", val |-> x]
Err(msg) == [tag |-> "Err", err |-> msg]
Panic(msg) == [tag |-> "Panic", msg |-> msg]

IsOk(o) == o.tag = "Ok"

\* The `?` operator over a sequence of outcomes, as collect::<Result<Vec<_>>>
\* and a loop with `?` do: the first outcome that is not Ok ends the
\* evaluation; otherwise the values in order.
FirstFailure(outs) ==
    LET bad == {i \in DOMAIN outs : ~IsOk(outs[i])}
    IN  outs[CHOOSE i \in bad : \A j \in bad : i <= j]

Collect(outs) ==
    IF \E i \in DOMAIN outs : ~IsOk(outs[i])
    THEN FirstFailure(outs)
    ELSE Ok([i \in DOMAIN outs |-> outs[i].val])

(***************************************************************************)
(* f64 values. A float is a record: a finite number (an exact quotient     *)
(* n/d), f64::MIN and f64::MAX (the smallest and largest finite values),   *)
(* negative infinity, or not-a-number.                                     *)
(***************************************************************************)
RECURSIVE Gcd(_, _)
Gcd(a, b) == IF b = 0 THEN a ELSE Gcd(b, a % b)

Abs(n) == IF n < 0 THEN -n ELSE n

Num(n) == [k |-> "num", n |-> n, d |-> 1]
F64_MIN == [k |-> "min", n |-> 0, d |-> 1]
F64_MAX == [k |-> "max", n |-> 0, d |-> 1]
NEG_INFINITY == [k |-> "ninf", n |-> 0, d |-> 1]
NAN == [k |-> "nan", n |-> 0, d |-> 1]

\* sum / count for count > 0, as an exact quotient in lowest terms.
F64Div(sum, count) ==
    LET g == Gcd(Abs(sum), count)
    IN  [k |-> "num", n |-> sum \div g, d |-> count \div g]

\* Position of a float's class on the extended real line.
F64Class(a) ==
    CASE a.k = "ninf" -> 0
      [] a.k = "min" -> 1
      [] a.k = "num" -> 2
      [] a.k = "max" -> 3

\* a < b on f64 (false whenever a NaN takes part). The finite numbers of the
\* model lie strictly between f64::MIN and f64::MAX.
F64Lt(a, b) ==
    /\ a.k # "nan" /\ b.k # "nan"
    /\ \/ F64Class(a) < F64Class(b)
       \/ a.k = "num" /\ b.k = "num" /\ a.n * b.d < b.n * a.d

\* f64::partial_cmp: None when the two cannot be ordered.
partial_cmp(a, b) ==
    IF a.k = "nan" \/ b.k = "nan" THEN None
    ELSE IF F64Lt(a, b) THEN Some("Less")
    ELSE IF F64Lt(b, a) THEN Some("Greater")
    ELSE Some("Equal")

unwrap_or(opt, default) == IF opt.some THEN opt.v ELSE default

(***************************************************************************)
(* HashMap<String, AggregationResult>: a function from its key set.        *)
(***************************************************************************)
EmptyMap == [name \in {} |-> None]

\* HashMap::insert: a value already under the key is replaced.
Insert(m, key, v) ==
    [name \in DOMAIN m \cup {key} |-> IF name = key THEN v ELSE m[name]]

\* HashMap::extend with a sequence of [key, value] pairs, in order.
RECURSIVE Extend(_, _)
Extend(m, pairs) ==
    IF pairs = <<>> THEN m
    ELSE Extend(Insert(m, Head(pairs).key, Head(pairs).value), Tail(pairs))

\* VecWithNames: a sequence of [key, value]; its key set.
Keys(vec) == {vec[i].key : i \in DOMAIN vec}

(***************************************************************************)
(* Requests (AggregationsInternal) and intermediate results.               *)
(***************************************************************************)
EmptyReq == [buckets |-> <<>>, metrics |-> <<>>]

\* IntermediateAggregationResults::default(): both categories absent.
DefaultIntermediate == [buckets |-> None, metrics |-> None]

KeyStr(s) == [Str |-> s]
KeyF64(n) == [F64 |-> n]

as_histogram(r) ==
    IF r.bucket_agg.kind = "Histogram" THEN Some(r.bucket_agg) ELSE None

as_term(r) ==
    IF r.bucket_agg.kind = "Terms" THEN Some(r.bucket_agg) ELSE None

(***************************************************************************)
(* Metric finalizers.                                                      *)
(***************************************************************************)
\* IntermediateAverage::finalize: sum / count, absent when nothing was counted.
Average_finalize(avg_data) ==
    IF avg_data.count = 0 THEN None
    ELSE Some(F64Div(avg_data.sum, avg_data.count))

\* IntermediateStats::finalize.
Stats_finalize(s) ==
    [count |-> s.count, sum |-> s.sum, min |-> s.min, max |-> s.max,
     avg |-> IF s.count = 0 THEN None ELSE Some(F64Div(s.sum, s.count))]

\* Stats::get_value: lookup of a named property.
Stats_get_value(stats, agg_property) ==
    CASE agg_property = "count" -> Ok(Some(Num(stats.count)))
      [] agg_property = "sum" -> Ok(Some(Num(stats.sum)))
      [] agg_property = "min" -> Ok(Some(stats.min))
      [] agg_property = "max" -> Ok(Some(stats.max))
      [] agg_property = "avg" -> Ok(stats.avg)
      [] OTHER -> Err("unknown property on stats metric result")

\* IntermediateMetricResult::empty_from_req.
IntermediateMetricResult_empty_from_req(r) ==
    IF r.kind = "Average"
    THEN [kind |-> "Average", sum |-> 0, count |-> 0]
    ELSE [kind |-> "Stats", count |-> 0, sum |-> 0, min |-> F64_MAX, max |-> F64_MIN]

\* impl From<IntermediateMetricResult> for MetricResult
MetricResult_from(metric) ==
    IF metric.kind = "Average"
    THEN [kind |-> "Average", value |-> Average_finalize(metric)]
    ELSE [kind |-> "Stats", stats |-> Stats_finalize(metric)]

\* MetricResult::get_value
MetricResult_get_value(metric, agg_property) ==
    IF metric.kind = "Average"
    THEN Ok(metric.value)
    ELSE Stats_get_value(metric.stats, agg_property)

\* get_value_from_aggregation answering a bucket with no value instead of an error.
AggregationResult_bucket_is_none(agg, name, agg_property) ==
    IF "BucketResult" \in DOMAIN agg
    THEN Ok(None)
    ELSE MetricResult_get_value(agg.MetricResult, agg_property)

\* AggregationResult::get_value_from_aggregation
AggregationResult_get_value_from_aggregation(agg, name, agg_property) ==
    IF "BucketResult" \in DOMAIN agg
    THEN Err("Tried to retrieve value from bucket aggregation")
    ELSE MetricResult_get_value(agg.MetricResult, agg_property)

\* AggregationResults::get_value_from_aggregation
get_value_from_aggregation(results, name, agg_property) ==
    IF name \in DOMAIN results
    THEN AggregationResult_get_value_from_aggregation(results[name], name, agg_property)
    ELSE Err("Can't find aggregation in sub_aggregations")

(***************************************************************************)
(* The conversion. The operators below call each other as the functions of *)
(* agg_result.rs do; each returns Ok, Err or Panic.                        *)
(***************************************************************************)
RECURSIVE from_intermediate_and_req_internal(_, _)
RECURSIVE BucketResult_from_intermediate_and_req(_, _)

\* compare_from with an absent `from` taken as the largest value.
compare_from_absent_max(left, right) ==
    unwrap_or(partial_cmp(unwrap_or(left.from, F64_MAX),
                          unwrap_or(right.from, F64_MAX)),
              "Equal")

\* compare_from with bounds that cannot be ordered taken as Less.
compare_from_unordered_less(left, right) ==
    unwrap_or(partial_cmp(unwrap_or(left.from, F64_MIN),
                          unwrap_or(right.from, F64_MIN)),
              "Less")

\* The closure given to sort_by: an absent `from` compares as f64::MIN, and two
\* bounds that cannot be ordered compare Equal.
compare_from(left, right) ==
    unwrap_or(partial_cmp(unwrap_or(left.from, F64_MIN),
                          unwrap_or(right.from, F64_MIN)),
              "Equal")

\* insert_head of the standard library's merge_sort: the head moves right past
\* the longest prefix of the (sorted) tail whose elements are less than it.
insert_head(head, tail) ==
    LET less(i) == compare_from(tail[i], head) = "Less"
        dest == IF \A i \in DOMAIN tail : less(i) THEN Len(tail)
                ELSE (CHOOSE i \in DOMAIN tail :
                        ~less(i) /\ \A j \in 1..(i - 1) : less(j)) - 1
    IN  SubSeq(tail, 1, dest) \o <<head>> \o SubSeq(tail, dest + 1, Len(tail))

\* slice::sort_by on a short slice: insert_head from the last position to
\* the first (the stable insertion sort merge_sort runs up to 20 elements).
RECURSIVE sort_by(_)
sort_by(buckets) ==
    IF Len(buckets) <= 1 THEN buckets
    ELSE insert_head(Head(buckets), sort_by(Tail(buckets)))

\* RangeBucketEntry::from_intermediate_and_req storing the bound the sort
\* compares by: an absent `from` becomes f64::MIN.
RangeBucketEntry_stores_sentinel(entry, r) ==
    LET sub == from_intermediate_and_req_internal(entry.sub_aggregation, r)
    IN  IF ~IsOk(sub) THEN sub
        ELSE Ok([key |-> entry.key,
                 doc_count |-> entry.doc_count,
                 sub_aggregation |-> sub.val,
                 to |-> entry.to,
                 from |-> Some(unwrap_or(entry.from, F64_MIN))])

\* RangeBucketEntry::from_intermediate_and_req
RangeBucketEntry_from_intermediate_and_req(entry, r) ==
    LET sub == from_intermediate_and_req_internal(entry.sub_aggregation, r)
    IN  IF ~IsOk(sub) THEN sub
        ELSE Ok([key |-> entry.key,
                 doc_count |-> entry.doc_count,
                 sub_aggregation |-> sub.val,
                 to |-> entry.to,
                 from |-> entry.from])

\* BucketEntry::from_intermediate_and_req finalizing the sub-aggregation
\* against an empty request instead of the sub-request.
BucketEntry_ignores_sub_request(entry, r) ==
    LET sub == from_intermediate_and_req_internal(entry.sub_aggregation, EmptyReq)
    IN  IF ~IsOk(sub) THEN sub
        ELSE Ok([key |-> KeyF64(entry.key.F64),
                 doc_count |-> entry.doc_count,
                 sub_aggregation |-> sub.val])

\* BucketEntry::from_intermediate_and_req
BucketEntry_from_intermediate_and_req(entry, r) ==
    LET sub == from_intermediate_and_req_internal(entry.sub_aggregation, r)
    IN  IF ~IsOk(sub) THEN sub
        ELSE Ok([key |-> KeyF64(entry.key.F64),
                 doc_count |-> entry.doc_count,
                 sub_aggregation |-> sub.val])

\* The histogram's gap filling (bucket::intermediate_buckets_to_final_buckets).
\* With min_doc_count = 0 every key from the first to the last observed one
\* gets a bucket, a missing one with doc_count 0 and an empty sub-aggregation;
\* with a positive min_doc_count only the buckets reaching it are kept.
intermediate_buckets_to_final_buckets(buckets, histogram_req, sub_aggregation) ==
    LET at(key) == {i \in DOMAIN buckets : buckets[i].key.F64 = key}
        empty(key) == [key |-> KeyF64(key), doc_count |-> 0,
                       sub_aggregation |-> DefaultIntermediate]
        first == buckets[1].key.F64
        last == buckets[Len(buckets)].key.F64
        n == (last - first) \div histogram_req.interval + 1
        filled == [i \in 1..n |->
                     LET key == first + (i - 1) * histogram_req.interval
                     IN  IF at(key) = {} THEN empty(key)
                         ELSE buckets[CHOOSE j \in at(key) : TRUE]]
        kept == SelectSeq(buckets,
                          LAMBDA e : e.doc_count >= histogram_req.min_doc_count)
        chosen == IF histogram_req.min_doc_count = 0 /\ buckets # <<>>
                  THEN filled ELSE kept
    IN  Collect([i \in DOMAIN chosen |->
                   BucketEntry_from_intermediate_and_req(chosen[i], sub_aggregation)])

\* Stable insertion of a term entry into a list ordered by descending count.
RECURSIVE by_count_desc(_)
by_count_desc(entries) ==
    IF Len(entries) <= 1 THEN entries
    ELSE LET tail == by_count_desc(Tail(entries))
             head == Head(entries)
             before == {i \in DOMAIN tail : tail[i].doc_count > head.doc_count}
         IN  SubSeq(tail, 1, Cardinality(before)) \o <<head>>
                 \o SubSeq(tail, Cardinality(before) + 1, Len(tail))

RECURSIVE sum_doc_count(_)
sum_doc_count(entries) ==
    IF entries = <<>> THEN 0
    ELSE Head(entries).doc_count + sum_doc_count(Tail(entries))

\* The terms' top-N selection (IntermediateTermBucketResult::into_final_result):
\* the `size` terms with the most documents, the count of the others, and the
\* error bound when there is one.
into_final_result(terms, term_req, sub_aggregation) ==
    LET ordered == by_count_desc(terms.entries)
        size == IF term_req.size < Len(ordered) THEN term_req.size ELSE Len(ordered)
        top == SubSeq(ordered, 1, size)
        rest == SubSeq(ordered, size + 1, Len(ordered))
        outs == [i \in DOMAIN top |->
                   LET sub == from_intermediate_and_req_internal(
                                  top[i].sub_aggregation, sub_aggregation)
                   IN  IF ~IsOk(sub) THEN sub
                       ELSE Ok([key |-> KeyStr(top[i].key.Str),
                                doc_count |-> top[i].doc_count,
                                sub_aggregation |-> sub.val])]
        entries == Collect(outs)
    IN  IF ~IsOk(entries) THEN entries
        ELSE Ok([kind |-> "Terms",
                 buckets |-> entries.val,
                 sum_other_doc_count |->
                     terms.sum_other_doc_count + sum_doc_count(rest),
                 doc_count_error_upper_bound |-> terms.doc_count_error_upper_bound])

\* IntermediateBucketResult::empty_from_req
IntermediateBucketResult_empty_from_req(bucket_agg) ==
    CASE bucket_agg.kind = "Terms" ->
            [kind |-> "Terms", entries |-> <<>>, sum_other_doc_count |-> 0,
             doc_count_error_upper_bound |-> None]
      [] bucket_agg.kind = "Range" -> [kind |-> "Range", buckets |-> <<>>]
      [] bucket_agg.kind = "Histogram" -> [kind |-> "Histogram", buckets |-> <<>>]

\* BucketResult::from_intermediate_and_req
BucketResult_from_intermediate_and_req(bucket_result, r) ==
    CASE bucket_result.kind = "Range" ->
            LET buckets == Collect([i \in DOMAIN bucket_result.buckets |->
                               RangeBucketEntry_from_intermediate_and_req(
                                   bucket_result.buckets[i], r.sub_aggregation)])
            IN  IF ~IsOk(buckets) THEN buckets
                ELSE Ok([kind |-> "Range", buckets |-> sort_by(buckets.val)])
      [] bucket_result.kind = "Histogram" ->
            IF ~as_histogram(r).some
            THEN Panic("unexpected aggregation, expected histogram aggregation")
            ELSE LET buckets == intermediate_buckets_to_final_buckets(
                                    bucket_result.buckets, as_histogram(r).v,
                                    r.sub_aggregation)
                 IN  IF ~IsOk(buckets) THEN buckets
                     ELSE Ok([kind |-> "Histogram", buckets |-> buckets.val])
      [] bucket_result.kind = "Terms" ->
            IF ~as_term(r).some
            THEN Panic("unexpected aggregation, expected term aggregation")
            ELSE into_final_result(bucket_result, as_term(r).v, r.sub_aggregation)

\* BucketResult::empty_from_req
BucketResult_empty_from_req(r) ==
    BucketResult_from_intermediate_and_req(
        IntermediateBucketResult_empty_from_req(r.bucket_agg), r)

\* add_converted_final_metrics_to_result
add_converted_final_metrics_to_result(results, metrics) ==
    Extend(results,
           [i \in DOMAIN metrics |->
              [key |-> metrics[i].key,
               value |-> [MetricResult |-> MetricResult_from(metrics[i].value)]]])

\* add_empty_final_metrics_to_result
add_empty_final_metrics_to_result(results, req_metrics) ==
    Ok(Extend(results,
              [i \in DOMAIN req_metrics |->
                 [key |-> req_metrics[i].key,
                  value |-> [MetricResult |-> MetricResult_from(
                      IntermediateMetricResult_empty_from_req(req_metrics[i].value))]]]))

\* add_empty_final_buckets_to_result leaving out the last requested bucket.
add_empty_final_buckets_short(results, req_buckets) ==
    LET outs == Collect([i \in DOMAIN req_buckets |->
                    BucketResult_empty_from_req(req_buckets[i].value)])
    IN  IF ~IsOk(outs) THEN outs
        ELSE Ok(Extend(results,
                       [i \in 1..(Len(req_buckets) - 1) |->
                          [key |-> req_buckets[i].key,
                           value |-> [BucketResult |-> outs.val[i]]]]))

\* add_empty_final_buckets_to_result
add_empty_final_buckets_to_result(results, req_buckets) ==
    LET outs == Collect([i \in DOMAIN req_buckets |->
                    BucketResult_empty_from_req(req_buckets[i].value)])
    IN  IF ~IsOk(outs) THEN outs
        ELSE Ok(Extend(results,
                       [i \in DOMAIN req_buckets |->
                          [key |-> req_buckets[i].key,
                           value |-> [BucketResult |-> outs.val[i]]]]))

\* add_coverted_final_buckets_to_result
add_coverted_final_buckets_to_result(results, buckets, req_buckets) ==
    IF Len(buckets) # Len(req_buckets)
    THEN Panic("assertion failed: left equals right")
    ELSE LET outs == Collect([i \in DOMAIN buckets |->
                         BucketResult_from_intermediate_and_req(
                             buckets[i].value, req_buckets[i].value)])
         IN  IF ~IsOk(outs) THEN outs
             ELSE Ok(Extend(results,
                            [i \in DOMAIN buckets |->
                               [key |-> buckets[i].key,
                                value |-> [BucketResult |-> outs.val[i]]]]))

\* from_intermediate_and_req_internal without the branch that synthesizes the
\* empty metrics.
from_intermediate_without_empty_metrics(ir, r) ==
    LET with_buckets ==
            IF ir.buckets.some
            THEN add_coverted_final_buckets_to_result(EmptyMap, ir.buckets.v, r.buckets)
            ELSE add_empty_final_buckets_to_result(EmptyMap, r.buckets)
    IN  IF ~IsOk(with_buckets) THEN with_buckets
        ELSE IF ir.metrics.some
             THEN Ok(add_converted_final_metrics_to_result(
                         with_buckets.val, ir.metrics.v))
             ELSE with_buckets

\* AggregationResults::from_intermediate_and_req_internal
from_intermediate_and_req_internal(ir, r) ==
    LET with_buckets ==
            IF ir.buckets.some
            THEN add_coverted_final_buckets_to_result(EmptyMap, ir.buckets.v, r.buckets)
            ELSE add_empty_final_buckets_to_result(EmptyMap, r.buckets)
    IN  IF ~IsOk(with_buckets) THEN with_buckets
        ELSE LET with_metrics ==
                     IF ir.metrics.some
                     THEN Ok(add_converted_final_metrics_to_result(
                                 with_buckets.val, ir.metrics.v))
                     ELSE add_empty_final_metrics_to_result(with_buckets.val, r.metrics)
             IN  IF ~IsOk(with_metrics) THEN with_metrics
                 ELSE Ok(with_metrics.val)

(***************************************************************************)
(* The requests and intermediate trees a run draws from. Three families:   *)
(* top-level shapes (any pairing of request and intermediate categories,   *)
(* names, kinds and counts), range results (any order of `from` bounds),   *)
(* and nested trees (any pairing of sub-request and sub-intermediate).     *)
(***************************************************************************)
Kinds == {"Range", "Histogram", "Terms"}
MetricKinds == {"Average", "Stats"}

\* Names of the bucket aggregations of a request, by position.
BucketNames == <<"b1", "b2", "b3", "b4">>
\* Keys of the entries of a range result, by position.
RangeKeys == <<"r1", "r2", "r3", "r4", "r5">>
\* Keys and counts of the entries of a histogram or terms result, by position.
HistogramKeys == <<0, 2, 3, 5>>
TermKeys == <<"a", "b", "c", "d">>
DocCounts == <<2, 0, 1, 3>>

RangeAgg == [kind |-> "Range"]
HistogramAgg(min_doc_count) ==
    [kind |-> "Histogram", interval |-> 1, min_doc_count |-> min_doc_count]
TermsAgg(size) == [kind |-> "Terms", size |-> size]

BucketAggs == {RangeAgg, HistogramAgg(0), TermsAgg(2)}
NestBucketAggs == {RangeAgg, HistogramAgg(0), HistogramAgg(1), TermsAgg(1)}

MetricReqs == {<<>>} \cup {<<[key |-> "m1", value |-> [kind |-> k]]>> : k \in MetricKinds}

AverageData == [kind |-> "Average", sum |-> 10, count |-> 4]
StatsData == [kind |-> "Stats", count |-> 3, sum |-> 6, min |-> Num(1), max |-> Num(3)]

\* The `to` bound of the entry at position i: absent at odd positions.
ToValue(i) == IF i % 2 = 1 THEN None ELSE Some(Num(30))

\* An entry of an intermediate bucket result of the given kind at position i.
RangeEntry(i, from, to, sub) ==
    [key |-> KeyStr(RangeKeys[i]), doc_count |-> DocCounts[i],
     sub_aggregation |-> sub, from |-> from, to |-> to]
HistogramEntry(i, sub) ==
    [key |-> KeyF64(HistogramKeys[i]), doc_count |-> DocCounts[i],
     sub_aggregation |-> sub]
TermEntry(i, sub) ==
    [key |-> KeyStr(TermKeys[i]), doc_count |-> DocCounts[i], sub_aggregation |-> sub]

\* An intermediate bucket result of the given kind with the given
\* sub-aggregations, one entry each.
BucketResultOf(kind, subs) ==
    CASE kind = "Range" ->
            [kind |-> "Range",
             buckets |-> [i \in DOMAIN subs |->
                            RangeEntry(i, IF i = 1 THEN Some(Num(10)) ELSE None,
                                       ToValue(i), subs[i])]]
      [] kind = "Histogram" ->
            [kind |-> "Histogram",
             buckets |-> [i \in DOMAIN subs |-> HistogramEntry(i, subs[i])]]
      [] kind = "Terms" ->
            [kind |-> "Terms",
             entries |-> [i \in DOMAIN subs |-> TermEntry(i, subs[i])],
             sum_other_doc_count |-> 1,
             doc_count_error_upper_bound |-> Some(1)]

SeqsUpTo(S, n) == UNION {[1..m -> S] : m \in 0..n}

\* Bucket results with a single entry without sub-aggregations.
LeafBucketResults == {BucketResultOf(k, <<DefaultIntermediate>>) : k \in Kinds}

\* Family 1: top-level shapes.
ShapeReqs ==
    {[buckets |-> [i \in DOMAIN aggs |->
                     [key |-> BucketNames[i],
                      value |-> [bucket_agg |-> aggs[i],
                                 sub_aggregation |-> EmptyReq]]],
      metrics |-> ms] :
        aggs \in SeqsUpTo(BucketAggs, MaxBuckets), ms \in MetricReqs}

\* A named bucket result at a position: under the request's name for that
\* position, or under a name the request does not declare.
NamedBuckets ==
    {[own |-> TRUE, bucket |-> b] : b \in LeafBucketResults} \cup
    {[own |-> FALSE, bucket |-> BucketResultOf("Range", <<DefaultIntermediate>>)]}

ShapeBuckets ==
    {None} \cup
    {Some([i \in DOMAIN ps |->
             [key |-> IF ps[i].own THEN BucketNames[i] ELSE "zz",
              value |-> ps[i].bucket]]) :
        ps \in SeqsUpTo(NamedBuckets, MaxBuckets)}

ShapeMetrics ==
    {None, Some(<<>>),
     Some(<<[key |-> "m1", value |-> AverageData]>>),
     Some(<<[key |-> "m1", value |-> StatsData]>>),
     Some(<<[key |-> "zz", value |-> StatsData]>>)}

ShapeInputs ==
    {[req |-> r, intermediate_results |-> [buckets |-> b, metrics |-> m]] :
        r \in ShapeReqs, b \in ShapeBuckets, m \in ShapeMetrics}

\* Family 2: one range aggregation and a range result with entries in any order
\* of `from`. The entries come out of a hash map, so any order is an input.
FromValues ==
    {None, Some(NAN), Some(NEG_INFINITY), Some(F64_MIN), Some(Num(10)), Some(Num(20))}
RangeReq ==
    [buckets |-> <<[key |-> "b1",
                    value |-> [bucket_agg |-> RangeAgg, sub_aggregation |-> EmptyReq]]>>,
     metrics |-> <<>>]

RangeResults ==
    {[kind |-> "Range",
      buckets |-> [i \in DOMAIN froms |->
                     RangeEntry(i, froms[i], ToValue(i), DefaultIntermediate)]] :
        froms \in SeqsUpTo(FromValues, MaxEntries)}

RangeInputs ==
    {[req |-> RangeReq,
      intermediate_results |->
          [buckets |-> Some(<<[key |-> "b1", value |-> b]>>), metrics |-> None]] :
        b \in RangeResults}

\* Family 3: one bucket aggregation with a sub-request, and a bucket result
\* whose entries carry sub-intermediates.
SubReqs ==
    {[buckets |-> bs, metrics |-> ms] :
        bs \in {<<>>} \cup
               {<<[key |-> "s",
                   value |-> [bucket_agg |-> a, sub_aggregation |-> EmptyReq]]>> :
                    a \in BucketAggs},
        ms \in {<<>>, <<[key |-> "avg", value |-> [kind |-> "Average"]]>>}}

SubIntermediates ==
    {[buckets |-> b, metrics |-> m] :
        b \in {None} \cup
              {Some(<<[key |-> "s", value |-> v]>>) : v \in LeafBucketResults} \cup
              {Some(<<[key |-> "zz", value |-> BucketResultOf("Range", <<>>)]>>)},
        m \in {None} \cup
              {Some(<<[key |-> n, value |-> AverageData]>>) : n \in {"avg", "zz"}}}

NestReqs ==
    {[buckets |-> <<[key |-> "b1",
                     value |-> [bucket_agg |-> a, sub_aggregation |-> sub]]>>,
      metrics |-> <<>>] :
        a \in NestBucketAggs, sub \in SubReqs}

\* The sub-intermediates of a result's entries: one entry, or two of which the
\* second repeats the first's or has both categories absent.
NestSubs ==
    {<<s>> : s \in SubIntermediates} \cup
    {<<p[1], p[2]>> : p \in {q \in SubIntermediates \X SubIntermediates :
                                 q[2] \in {q[1], DefaultIntermediate}}}

NestBuckets ==
    {None} \cup
    {Some(<<[key |-> "b1", value |-> BucketResultOf(k, subs)]>>) :
        k \in Kinds, subs \in NestSubs}

NestInputs ==
    {[req |-> r, intermediate_results |-> [buckets |-> b, metrics |-> None]] :
        r \in NestReqs, b \in NestBuckets}

Inputs == ShapeInputs \cup RangeInputs \cup NestInputs

(***************************************************************************)
(* The state machine.                                                      *)
(***************************************************************************)
NoOutcome == [tag |-> "None"]

ValueNames == {"b1", "m1", "zz"}
Properties == {"count", "value"}

Init ==
    /\ \E input \in Inputs :
          /\ req = input.req
          /\ intermediate_results = input.intermediate_results
    /\ result = NoOutcome
    /\ value = NoOutcome
    /\ pc = "start"

\* AggregationResults::from_intermediate_and_req_internal on the drawn input.
Finalize ==
    /\ pc = "start"
    /\ result' = from_intermediate_and_req_internal(intermediate_results, req)
    /\ pc' = "done"
    /\ UNCHANGED <<req, intermediate_results, value>>

\* AggregationResults::get_value_from_aggregation on the final tree (&self).
GetValue(name, agg_property) ==
    /\ pc \in {"done", "read"}
    /\ IsOk(result)
    /\ value' = [name |-> name, agg_property |-> agg_property,
                 out |-> get_value_from_aggregation(result.val, name, agg_property)]
    /\ pc' = "read"
    /\ UNCHANGED <<req, intermediate_results, result>>

Next ==
    \/ Finalize
    \/ \E name \in ValueNames, agg_property \in Properties :
          GetValue(name, agg_property)

Spec == Init /\ [][Next]_vars

(***************************************************************************)
(* Vocabulary of the properties.                                           *)
(***************************************************************************)
Finalized == pc # "start"
Succeeded == Finalized /\ IsOk(result)

\* The names a request declares.
ReqNames(r) == Keys(r.buckets) \cup Keys(r.metrics)

\* The kind a request declares for a bucket name.
DeclaredKind(r, name) ==
    LET i == CHOOSE j \in DOMAIN r.buckets : r.buckets[j].key = name
    IN  r.buckets[i].value.bucket_agg.kind

\* Each present category of the intermediate carries exactly the request's
\* names of that category.
NamesMatch(ir, r) ==
    /\ ir.buckets.some => Keys(ir.buckets.v) = Keys(r.buckets)
    /\ ir.metrics.some => Keys(ir.metrics.v) = Keys(r.metrics)

\* The names of a category: the intermediate's when present, else the request's.
CategoryNames(category, declared) ==
    IF category.some THEN Keys(category.v) ELSE Keys(declared)

IsBucket(agg) == "BucketResult" \in DOMAIN agg

\* Key set and per-key variant and bucket kind of a final tree.
Shape(results) ==
    [name \in DOMAIN results |->
        IF IsBucket(results[name]) THEN results[name].BucketResult.kind
        ELSE "Metric"]

\* The positions of the intermediate's bucket category whose result is the one
\* found under its name in the final tree (a later insert under the same name
\* replaces an earlier one).
Surviving(ir, results) ==
    IF ~ir.buckets.some THEN {}
    ELSE {i \in DOMAIN ir.buckets.v :
            /\ \A j \in DOMAIN ir.buckets.v : j > i => ir.buckets.v[j].key # ir.buckets.v[i].key
            /\ ir.buckets.v[i].key \in DOMAIN results
            /\ IsBucket(results[ir.buckets.v[i].key])}

\* The top-level range results of the drawn input that were finalized.
RangePositions ==
    IF ~Succeeded THEN {}
    ELSE {i \in Surviving(intermediate_results, result.val) :
            intermediate_results.buckets.v[i].value.kind = "Range"}

RangeIn(i) == intermediate_results.buckets.v[i].value.buckets
RangeOut(i) == result.val[intermediate_results.buckets.v[i].key].BucketResult.buckets

\* Position in the input of the entry an output entry was made from.
InputIndex(in, e) == CHOOSE p \in DOMAIN in : in[p].key = e.key

HasNan(in) == \E p \in DOMAIN in : in[p].from = Some(NAN)

(***************************************************************************)
(* C1. Key set of a successful conversion.                                 *)
(***************************************************************************)
\* C1 as stated: whenever the conversion returns Ok, the key set of the map
\* is exactly the set of bucket and metric names the request declares.
C1_KeySetIsDeclaredNames ==
    Succeeded => DOMAIN result.val = ReqNames(req)

\* C1 amended: whenever the conversion returns Ok, the key set is the names of
\* the intermediate's bucket category when present (the request's bucket names
\* when absent) plus the names of the intermediate's metric category when
\* present (the request's metric names when absent); it is exactly the
\* request's names whenever each present category carries the request's names.
C1_KeySetFollowsPresentCategories ==
    Succeeded =>
        /\ DOMAIN result.val =
              CategoryNames(intermediate_results.buckets, req.buckets)
                \cup CategoryNames(intermediate_results.metrics, req.metrics)
        /\ NamesMatch(intermediate_results, req) =>
              DOMAIN result.val = ReqNames(req)

\* A successful conversion of two requested buckets present in the
\* intermediate and a requested metric absent from it.
C1_Witness ==
    /\ Succeeded
    /\ intermediate_results.buckets.some /\ ~intermediate_results.metrics.some
    /\ Len(req.buckets) = 2 /\ Len(req.metrics) = 1
    /\ NamesMatch(intermediate_results, req)
    /\ DOMAIN result.val = {"b1", "b2", "m1"}

(***************************************************************************)
(* C2. Shape stability.                                                    *)
(***************************************************************************)
\* C2: in a successful conversion every bucket entry has the kind the request
\* declares for its name, whatever the intermediate holds; in particular the
\* conversion of the intermediate with both categories absent, when it
\* succeeds too, has the same kind under every key the two outputs share.
C2_KindIsDeclaredKind ==
    Succeeded =>
        /\ \A name \in DOMAIN result.val \cap Keys(req.buckets) :
              IsBucket(result.val[name]) =>
                 result.val[name].BucketResult.kind = DeclaredKind(req, name)
        /\ LET other == from_intermediate_and_req_internal(DefaultIntermediate, req)
           IN  IsOk(other) =>
                 \A name \in DOMAIN result.val \cap DOMAIN other.val :
                    Shape(result.val)[name] = Shape(other.val)[name]

(***************************************************************************)
(* C3. Kind mismatch.                                                      *)
(***************************************************************************)
\* Some intermediate bucket result is paired by position with a request entry
\* of another kind.
KindMismatch(ir, r) ==
    /\ ir.buckets.some
    /\ Len(ir.buckets.v) = Len(r.buckets)
    /\ \E i \in DOMAIN r.buckets :
          ir.buckets.v[i].value.kind # r.buckets[i].value.bucket_agg.kind

\* C3: when an intermediate bucket result is paired with a request entry of a
\* different kind, the conversion returns Err.
C3_KindMismatchIsErr ==
    (Finalized /\ KindMismatch(intermediate_results, req)) => result.tag = "Err"

(***************************************************************************)
(* C4. Arity mismatch.                                                     *)
(***************************************************************************)
\* C4: when the bucket category is present and its number of results differs
\* from the number of requested bucket aggregations, the conversion returns Err.
C4_ArityMismatchIsErr ==
    (/\ Finalized
     /\ intermediate_results.buckets.some
     /\ Len(intermediate_results.buckets.v) # Len(req.buckets))
        => result.tag = "Err"

(***************************************************************************)
(* C5. Order of a finalized range result.                                  *)
(***************************************************************************)
\* The bound an entry is ordered by when an absent `from` stands for f64::MIN.
OrderBound(e) == IF e.from.some THEN e.from.v ELSE F64_MIN

\* Entry a comes strictly before entry b when an absent `from` is below every
\* present one.
AbsentFirstBefore(a, b) ==
    \/ ~a.from.some /\ b.from.some
    \/ a.from.some /\ b.from.some /\ F64Lt(a.from.v, b.from.v)

\* C5 as stated: every finalized range sequence is ascending by `from` with an
\* absent `from` before every present one (negative infinity and the smallest
\* finite value included), and entries that compare equal keep their input order.
C5_AbsentBeforeEveryPresent ==
    \A i \in RangePositions :
        \A p, q \in DOMAIN RangeOut(i) :
            p < q =>
               /\ ~AbsentFirstBefore(RangeOut(i)[q], RangeOut(i)[p])
               /\ ~AbsentFirstBefore(RangeOut(i)[p], RangeOut(i)[q]) =>
                     InputIndex(RangeIn(i), RangeOut(i)[p])
                        < InputIndex(RangeIn(i), RangeOut(i)[q])

\* C5 amended: every finalized range sequence none of whose `from` bounds is
\* not-a-number is ascending by `from` with an absent `from` compared as
\* f64::MIN, the smallest finite value: an entry without `from` comes after an
\* entry whose `from` is negative infinity and before every entry whose `from`
\* is greater than f64::MIN, and entries whose bounds compare equal (an absent
\* one and f64::MIN included) keep their input order.
C5_AscendingWithAbsentAsF64Min ==
    \A i \in RangePositions :
        ~HasNan(RangeIn(i)) =>
            \A p, q \in DOMAIN RangeOut(i) :
                p < q =>
                   /\ ~F64Lt(OrderBound(RangeOut(i)[q]), OrderBound(RangeOut(i)[p]))
                   /\ OrderBound(RangeOut(i)[p]) = OrderBound(RangeOut(i)[q]) =>
                         InputIndex(RangeIn(i), RangeOut(i)[p])
                            < InputIndex(RangeIn(i), RangeOut(i)[q])

Froms(entries) == [p \in DOMAIN entries |-> entries[p].from]
EntryKeys(entries) == [p \in DOMAIN entries |-> entries[p].key.Str]

\* The input order {20, absent, 10} finalized to [absent, 10, 20].
C5_Witness ==
    /\ 1 \in RangePositions
    /\ Froms(RangeIn(1)) = <<Some(Num(20)), None, Some(Num(10))>>
    /\ Froms(RangeOut(1)) = <<None, Some(Num(10)), Some(Num(20))>>
    /\ EntryKeys(RangeOut(1)) = <<"r2", "r3", "r1">>

(***************************************************************************)
(* C9. Bounds that cannot be ordered.                                      *)
(***************************************************************************)
\* C9: when a range result holds a not-a-number `from`, every comparison
\* that bound takes part in yields Equal and the conversion of the range
\* result completes: the outcome is Ok and holds every entry.
C9_UnorderedComparesEqual ==
    (/\ Finalized
     /\ req = RangeReq
     /\ intermediate_results.buckets.some
     /\ Len(intermediate_results.buckets.v) = 1
     /\ intermediate_results.buckets.v[1].value.kind = "Range"
     /\ HasNan(intermediate_results.buckets.v[1].value.buckets))
        =>
        /\ IsOk(result)
        /\ Len(result.val["b1"].BucketResult.buckets) = Len(RangeIn(1))
        /\ \A l, r \in {RangeOut(1)[p] : p \in DOMAIN RangeOut(1)} :
              (l.from = Some(NAN) \/ r.from = Some(NAN)) =>
                 compare_from(l, r) = "Equal"

\* A finalized range result with three entries, the middle one not-a-number.
C9_Witness ==
    /\ 1 \in RangePositions
    /\ Froms(RangeIn(1)) = <<Some(Num(20)), Some(NAN), Some(Num(10))>>
    /\ Len(RangeOut(1)) = 3

(***************************************************************************)
(* C10. Range finalization only reorders.                                  *)
(***************************************************************************)
\* What an entry carries besides its sub-aggregation.
Carried(e) == [key |-> e.key, doc_count |-> e.doc_count, from |-> e.from, to |-> e.to]

Occurrences(entries, c) ==
    Cardinality({p \in DOMAIN entries : Carried(entries[p]) = c})

\* C10: the finalized range sequence is a permutation of the input entries,
\* each with its key, doc_count, from and to unchanged (an absent bound stays
\* absent).
C10_RangeIsPermutation ==
    \A i \in RangePositions :
        /\ Len(RangeOut(i)) = Len(RangeIn(i))
        /\ \A p \in DOMAIN RangeIn(i) :
              Occurrences(RangeOut(i), Carried(RangeIn(i)[p]))
                 = Occurrences(RangeIn(i), Carried(RangeIn(i)[p]))

\* A finalized range result whose entries were reordered and whose entry
\* without `from` moved to the front.
C10_Witness ==
    /\ 1 \in RangePositions
    /\ Len(RangeIn(1)) = 3
    /\ RangeIn(1)[3].from = None
    /\ RangeOut(1)[1].key = RangeIn(1)[3].key
    /\ RangeOut(1)[1].from = None
    /\ EntryKeys(RangeOut(1)) # EntryKeys(RangeIn(1))

(***************************************************************************)
(* C6. Both categories absent.                                             *)
(***************************************************************************)
\* The empty form of a requested bucket aggregation.
IsEmptyBucket(bucket, kind) ==
    /\ bucket.kind = kind
    /\ \A p \in DOMAIN bucket.buckets : bucket.buckets[p].doc_count = 0
    /\ kind = "Terms" =>
          /\ bucket.buckets = <<>>
          /\ bucket.sum_other_doc_count = 0
          /\ bucket.doc_count_error_upper_bound = None

\* The neutral value of a requested metric.
IsNeutralMetric(metric, kind) ==
    /\ metric.kind = kind
    /\ kind = "Average" => metric.value = None
    /\ kind = "Stats" =>
          metric.stats.count = 0 /\ metric.stats.sum = 0 /\ metric.stats.avg = None

\* C6: when the intermediate has both categories absent the conversion
\* succeeds with exactly one entry per requested aggregation, each in the
\* empty form of its requested kind.
C6_EmptySynthesis ==
    (Finalized /\ intermediate_results = DefaultIntermediate) =>
        /\ IsOk(result)
        /\ DOMAIN result.val = ReqNames(req)
        /\ \A i \in DOMAIN req.buckets :
              /\ IsBucket(result.val[req.buckets[i].key])
              /\ IsEmptyBucket(result.val[req.buckets[i].key].BucketResult,
                               req.buckets[i].value.bucket_agg.kind)
        /\ \A i \in DOMAIN req.metrics :
              /\ ~IsBucket(result.val[req.metrics[i].key])
              /\ IsNeutralMetric(result.val[req.metrics[i].key].MetricResult,
                                 req.metrics[i].value.kind)

\* A finalized request for a terms aggregation, another bucket aggregation and
\* a metric, none of which the intermediate holds.
C6_Witness ==
    /\ Succeeded
    /\ intermediate_results = DefaultIntermediate
    /\ Len(req.buckets) = 2 /\ Len(req.metrics) = 1
    /\ req.buckets[1].value.bucket_agg.kind = "Terms"
    /\ req.buckets[2].value.bucket_agg.kind = "Histogram"
    /\ result.val["b1"].BucketResult.buckets = <<>>

(***************************************************************************)
(* C7. Reading a value from the final tree.                                *)
(***************************************************************************)
\* C7: a read of (name, property) leaves the tree as the conversion made it
\* and has one of three outcomes: an error when the name is no key of the
\* tree, an error when the name maps to a bucket result, and otherwise what
\* the metric's accessor gives (for an average its optional value, whatever
\* the property).
C7_GetValueOutcomes ==
    pc = "read" =>
        /\ result = from_intermediate_and_req_internal(intermediate_results, req)
        /\ value.name \notin DOMAIN result.val =>
              value.out = Err("Can't find aggregation in sub_aggregations")
        /\ value.name \in DOMAIN result.val =>
              LET agg == result.val[value.name]
              IN  /\ IsBucket(agg) =>
                        value.out = Err("Tried to retrieve value from bucket aggregation")
                  /\ (~IsBucket(agg) /\ agg.MetricResult.kind = "Average") =>
                        value.out = Ok(agg.MetricResult.value)
                  /\ (~IsBucket(agg) /\ agg.MetricResult.kind = "Stats") =>
                        value.out = Stats_get_value(agg.MetricResult.stats,
                                                    value.agg_property)

\* A read of a name that maps to a bucket result.
C7_Witness ==
    /\ pc = "read"
    /\ value.name = "b1"
    /\ "b1" \in DOMAIN result.val
    /\ IsBucket(result.val["b1"])
    /\ value.out.tag = "Err"

(***************************************************************************)
(* C8. Nested sub-aggregations.                                            *)
(***************************************************************************)
\* The entries of an intermediate bucket result, whatever its kind.
EntriesOf(bucket) ==
    IF bucket.kind = "Terms" THEN bucket.entries ELSE bucket.buckets

\* The intermediate sub-aggregation a final entry was made from: that of the
\* intermediate entry with its key, or the empty one of a bucket that fills a
\* gap of a histogram.
SubIntermediateOf(bucket, e) ==
    LET from == {p \in DOMAIN EntriesOf(bucket) : EntriesOf(bucket)[p].key = e.key}
    IN  IF from = {} THEN DefaultIntermediate
        ELSE EntriesOf(bucket)[CHOOSE p \in from : TRUE].sub_aggregation

\* The bucket results of the intermediate paired with the request's entries:
\* by position when the category is present, else the empty result of each
\* requested bucket.
Paired(ir, r) ==
    IF ir.buckets.some
    THEN [i \in DOMAIN ir.buckets.v |->
            [key |-> ir.buckets.v[i].key, bucket |-> ir.buckets.v[i].value,
             sub_req |-> r.buckets[i].value.sub_aggregation]]
    ELSE [i \in DOMAIN r.buckets |->
            [key |-> r.buckets[i].key,
             bucket |-> IntermediateBucketResult_empty_from_req(
                            r.buckets[i].value.bucket_agg),
             sub_req |-> r.buckets[i].value.sub_aggregation]]

\* The pairs whose result is the one under its name in the final tree.
Kept(pairs, results) ==
    {i \in DOMAIN pairs :
        /\ \A j \in DOMAIN pairs : j > i => pairs[j].key # pairs[i].key
        /\ IsBucket(results[pairs[i].key])}

\* Every entry below `results`, at any depth, has the declared names of its
\* sub-request as the key set of its sub-aggregation.
RECURSIVE NestedKeysAreDeclared(_, _, _)
NestedKeysAreDeclared(ir, r, results) ==
    LET pairs == Paired(ir, r)
    IN  \A i \in Kept(pairs, results) :
           LET entries == results[pairs[i].key].BucketResult.buckets
           IN  \A p \in DOMAIN entries :
                  /\ DOMAIN entries[p].sub_aggregation = ReqNames(pairs[i].sub_req)
                  /\ NestedKeysAreDeclared(
                         SubIntermediateOf(pairs[i].bucket, entries[p]),
                         pairs[i].sub_req, entries[p].sub_aggregation)

\* Every entry below `results`, at any depth, has as the key set of its
\* sub-aggregation the names of the present categories of the intermediate
\* sub-aggregation it was made from and the sub-request's names of the absent
\* ones.
RECURSIVE NestedKeysFollowCategories(_, _, _)
NestedKeysFollowCategories(ir, r, results) ==
    LET pairs == Paired(ir, r)
    IN  \A i \in Kept(pairs, results) :
           LET entries == results[pairs[i].key].BucketResult.buckets
           IN  \A p \in DOMAIN entries :
                  LET sub == SubIntermediateOf(pairs[i].bucket, entries[p])
                      keys == DOMAIN entries[p].sub_aggregation
                  IN  /\ keys = CategoryNames(sub.buckets, pairs[i].sub_req.buckets)
                                 \cup CategoryNames(sub.metrics, pairs[i].sub_req.metrics)
                      /\ NamesMatch(sub, pairs[i].sub_req) =>
                            keys = ReqNames(pairs[i].sub_req)
                      /\ NestedKeysFollowCategories(sub, pairs[i].sub_req,
                                                    entries[p].sub_aggregation)

====
